---- MODULE Spec2Model ----
(***************************************************************************)
(* A model of the VLR pipeline: the crawler and content-hash deduplicating *)
(* download store of backend/utils/download_vlr_pdfs.py, the PDF text      *)
(* extractors of backend/utils/pdf_to_csv.py and pdf_to_csv_recursive.py,  *)
(* the TF-IDF indexer of backend/utils/process_csv.py and the search of    *)
(* backend/utils/search_csv.py.                                            *)
(*                                                                         *)
(* Strings the code takes apart (URLs, file names, header values) are      *)
(* sequences of tokens: "https://example.org/files/a.pdf" is               *)
(* <<HOST, "/", "files", "/", "a", ".pdf">>.  A CSV file is a sequence of  *)
(* rows, a row a sequence of fields, a field a sequence of tokens.         *)
(***************************************************************************)
EXTENDS Integers, Sequences, FiniteSets, TLC

\* How many times main() is run over the same directory.
MaxRuns == 2

(***************************************************************************)
(* Strings                                                                 *)
(***************************************************************************)
\* str.lower(), token by token.
Lower(tok) ==
    CASE tok = ".PDF" -> ".pdf"
      [] tok = "Application/PDF" -> "application/pdf"
      [] tok = "Barcelona" -> "barcelona"
      [] tok = "The" -> "the"
      [] tok = "Review" -> "review"
      [] OTHER -> tok

LowerSeq(s) == [k \in DOMAIN s |-> Lower(s[k])]

\* s.endswith('.pdf')
EndsWithPdf(s) == Len(s) > 0 /\ s[Len(s)] = ".pdf"

SetMax(S) == CHOOSE m \in S : \A k \in S : k <= m

\* Index of the last "/" of s, 0 when it has none.
LastSlash(s) ==
    LET S == {k \in 1..Len(s) : s[k] = "/"}
    IN  IF S = {} THEN 0 ELSE SetMax(S)

\* s.split("/")[-1]
LastSegment(s) == SubSeq(s, LastSlash(s) + 1, Len(s))

os_path_join(a, b) == a \o <<"/">> \o b

\* File name extensions os.path.splitext can split off.
ExtTokens == {".pdf", ".PDF"}

\* os.path.splitext(name): <<base, ext>>; a name that is only an extension
\* (".pdf") has no extension.
os_path_splitext(name) ==
    IF Len(name) > 1 /\ name[Len(name)] \in ExtTokens
    THEN <<SubSeq(name, 1, Len(name) - 1), <<name[Len(name)]>>>>
    ELSE <<name, <<>>>>

(***************************************************************************)
(* The web site the crawler runs against                                   *)
(***************************************************************************)
HOST == "https://example.org"
U_REPORTS == <<HOST, "/", "reports">>
U_PAGE2 == <<HOST, "/", "page", "?", "page=2">>
U_A == <<HOST, "/", "files", "/", "a", ".pdf">>
U_B == <<HOST, "/", "files", "/", "b", ".pdf">>
U_A2 == <<HOST, "/", "other", "/", "a", ".pdf">>
U_C == <<HOST, "/", "files", "/", "c", ".PDF">>
URLS == {U_REPORTS, U_PAGE2, U_A, U_B, U_A2, U_C}

\* The anchors of /reports: a.pdf twice (once absolute, once relative) and
\* the pagination link; /page?page=2 links b.pdf, c.PDF and b.pdf once more
\* with a query string.
REPORTS_LINKS == <<U_A, <<"files", "/", "a", ".pdf">>, <<"page", "?", "page=2">>>>
PAGE2_LINKS == <<<<"/", "files", "/", "b", ".pdf">>, U_C,
                 <<"/", "files", "/", "b", ".pdf", "?", "download=1">>>>

Response(exc, status, ctype, body, links, stream, selenium) ==
    [exc |-> exc, status |-> status, ctype |-> ctype, body |-> body,
     links |-> links, stream |-> stream, selenium |-> selenium]

Html(links) == Response(FALSE, 200, <<"text/html">>, "html", links, "ok", "none")
Forbidden(links, selenium) ==
    Response(FALSE, 403, <<"text/html">>, "html", links, "ok", selenium)
HttpError(status) == Response(FALSE, status, <<"text/html">>, "html", <<>>, "ok", "none")
Timeout == Response(TRUE, 0, <<>>, "", <<>>, "ok", "none")
Pdf(ctype, body, stream) == Response(FALSE, 200, ctype, body, <<>>, stream, "none")

\* What each URL may answer; one answer per URL is fixed when the site is set up.
ServerOptions(url) ==
    CASE url = U_REPORTS ->
            {Html(REPORTS_LINKS), Forbidden(REPORTS_LINKS, "ok"),
             Forbidden(REPORTS_LINKS, "fail"), HttpError(500), Timeout}
      [] url = U_PAGE2 -> {Html(PAGE2_LINKS), Timeout}
      [] url = U_A ->
            {Pdf(<<"application/pdf">>, "A", "ok"),
             Pdf(<<"Application/PDF", ";", "charset=binary">>, "A", "ok"),
             Pdf(<<"text/html">>, "A", "ok"),
             Pdf(<<"application/pdf">>, "A", "broken"),
             HttpError(404), Timeout}
      [] url = U_B ->
            {Pdf(<<"application/pdf">>, "B", "ok"),
             Pdf(<<"application/pdf">>, "B", "broken")}
      [] url = U_A2 -> {Pdf(<<"application/pdf">>, "K", "ok"), HttpError(404)}
      [] url = U_C -> {Pdf(<<"application/pdf">>, "A", "ok"), Pdf(<<>>, "A", "ok")}

\* The seed lists main() may be given.
SCENARIO_SEEDS == <<U_REPORTS>>
MIXED_SEEDS == <<U_A, U_REPORTS, U_A2, U_PAGE2>>
\* A seed list that names one URL twice, as the list of main does.
REPEATED_SEEDS == <<U_B, U_B>>
SeedLists == {SCENARIO_SEEDS, MIXED_SEEDS, REPEATED_SEEDS}

\* hashlib.md5(content).hexdigest() as <<first 8 hex characters, the rest>>;
\* "A" and "K" differ in content and share the first 8 characters.
MD5(content) ==
    CASE content = "A" -> <<"11111111", "aaaa">>
      [] content = "K" -> <<"11111111", "kkkk">>
      [] content = "B" -> <<"22222222", "bbbb">>
      [] OTHER -> <<"99999999", content>>

\* What is on disk of a body whose stream broke off.
Truncated(content) == content \o "~"

(***************************************************************************)
(* Constants of download_vlr_pdfs.py                                       *)
(***************************************************************************)
BASE_DOWNLOAD_DIR == <<"precompute-data/download_vlr_pdfs">>
CSV_FILE_PATH == "downloaded_pdfs.csv"
VISITED_URLS_CSV_FILE == "visited_urls.csv"
UNIQUE_PDFS_CSV_FILE == "unique_pdfs.csv"
DUPLICATE_PDFS_CSV_FILE == "duplicate_pdfs.csv"
CsvNames ==
    {CSV_FILE_PATH, VISITED_URLS_CSV_FILE, UNIQUE_PDFS_CSV_FILE, DUPLICATE_PDFS_CSV_FILE}

LEGACY_HEADER == <<<<"PDF_URL">>, <<"Local_File_Path">>>>
VISITED_HEADER == <<<<"Visited_URL">>, <<"Timestamp">>>>
HASH_HEADER == <<<<"PDF_URL">>, <<"Local_File_Path">>, <<"Hash">>>>

\* datetime.now().strftime(...)
Timestamp == <<"YYYY-MM-DD HH:MM:SS">>

NoFile == [exists |-> FALSE, rows |-> <<>>]
EmptyFile == [exists |-> TRUE, rows |-> <<>>]

\* pdfs.csv: its header line (the column names) and its rows, one record
\* per document; a file of no bytes has no columns.
CORPUS_COLUMNS == <<"filename", "content">>
NoCsv == [exists |-> FALSE, columns |-> <<>>, rows |-> <<>>]

\* The cache directory before anything is written to it: neither
\* tfidf_matrix.npz nor tfidf_metadata.npz is there.
NoMatrix == [exists |-> FALSE, rows |-> <<>>]
NoMetadata == [exists |-> FALSE, vocabulary |-> <<>>, idf_values |-> <<>>]
NoCache == [exists |-> FALSE, tfidf_matrix |-> NoMatrix, tfidf_metadata |-> NoMetadata]

\* No search was made yet.
NotRun == [outcome |-> "not run", list |-> <<>>]

\* Log files that may exist with no content when main() first runs.
StartEmptyCandidates == {VISITED_URLS_CSV_FILE, UNIQUE_PDFS_CSV_FILE}

VARIABLES
    server,          \* URL -> the response the site gives for it
    unreadable,      \* the paths whose read fails with an I/O error
    urls_to_scrape,  \* main's seed list
    csvFiles,        \* the four log files: name -> [exists, rows]
    fs,              \* the PDF files under BASE_DOWNLOAD_DIR: path -> content
    visited_urls,    \* main's in-memory set of visited URLs
    unique_hashes,   \* main's in-memory set of known content hashes
    pc,              \* "idle", "loop", "download", "done", "aborted"
    i,               \* position of main's loop in urls_to_scrape
    pending,         \* PDF URLs download_pdfs_from_url still has to download
    gets,            \* the requests issued in this run, in order
    run,             \* number of runs of main() started
    pdf_directory,   \* the directory the text extractors read
    csv_output,      \* pdfs.csv, the corpus the extractors write
    job,             \* the batch job that ran last
    cache_dir,       \* the cache directory and its two index artifacts
    query,           \* the query of the last search
    query_vec,       \* the query vector of the last search
    results          \* what the last search returned

crawlVars ==
    <<server, unreadable, urls_to_scrape, csvFiles, fs, visited_urls, unique_hashes,
      pc, i, pending, gets, run>>
extractVars == <<pdf_directory, csv_output, job>>
indexVars == <<cache_dir, query, query_vec, results>>
vars == <<crawlVars, extractVars, indexVars>>

(***************************************************************************)
(* download_vlr_pdfs.py                                                    *)
(***************************************************************************)
initialize_csv(files, file_path, headers) ==
    IF ~files[file_path].exists
    THEN [files EXCEPT ![file_path] = [exists |-> TRUE, rows |-> <<headers>>]]
    ELSE files

load_csv_to_set(files, file_path, column_index) ==
    IF ~files[file_path].exists \/ files[file_path].rows = <<>>
    THEN {}
    ELSE LET rows == files[file_path].rows
         IN  {rows[k][column_index + 1] :
                 k \in {n \in 2..Len(rows) : Len(rows[n]) > column_index}}

\* add_to_csv opening the file with mode 'w' instead of 'a'.
add_to_csv_truncating(files, file_path, row) ==
    [files EXCEPT ![file_path] = [exists |-> TRUE, rows |-> <<row>>]]

add_to_csv(files, file_path, row) ==
    [files EXCEPT ![file_path] = [exists |-> TRUE, rows |-> Append(@.rows, row)]]

\* The None generate_hash returns when it cannot read the file.
NoHash == <<>>

\* generate_hash: the digest of the bytes at file_path, None on an error.
generate_hash(disk, file_path) ==
    IF file_path \in unreadable THEN NoHash ELSE MD5(disk[file_path])

is_pdf_url(url) == EndsWithPdf(LowerSeq(url))

\* urljoin(url, href) for the hrefs of the site: absolute, host-relative
\* and path-relative references.
urljoin(url, href) ==
    IF href[1] = HOST THEN href
    ELSE IF href[1] = "/" THEN <<url[1]>> \o href
    ELSE SubSeq(url, 1, LastSlash(url)) \o href

\* download_pdf without its content-type test.
IsPdfContentType_unchecked(content_type) == TRUE

\* 'application/pdf' in content_type (already lower-cased)
IsPdfContentType(content_type) ==
    \E k \in DOMAIN content_type : content_type[k] = "application/pdf"

\* original_filename of download_pdf
OriginalFilename(pdf_url) ==
    LET name == LastSegment(pdf_url)
    IN  IF ~EndsWithPdf(LowerSeq(name)) THEN name \o <<".pdf">> ELSE name

Exists(disk, path) == path \in DOMAIN disk

\* f"{base}_{counter}{ext}"
Suffixed(name, counter) ==
    LET parts == os_path_splitext(name)
    IN  parts[1] \o <<"_" \o ToString(counter)>> \o parts[2]

\* The filename-conflict loop: the first counter whose path does not exist.
FirstFreeCounter(disk, subdirectory, name) ==
    CHOOSE c \in 1..(Cardinality(DOMAIN disk) + 1) :
        /\ ~Exists(disk, os_path_join(subdirectory, Suffixed(name, c)))
        /\ \A d \in 1..(c - 1) : Exists(disk, os_path_join(subdirectory, Suffixed(name, d)))

\* download_pdf without its filename-conflict loop.
FinalFilePath_no_conflict_loop(disk, subdirectory, original_filename) ==
    os_path_join(subdirectory, original_filename)

FinalFilePath(disk, subdirectory, original_filename) ==
    IF Exists(disk, os_path_join(subdirectory, original_filename))
    THEN os_path_join(subdirectory,
             Suffixed(original_filename,
                      FirstFreeCounter(disk, subdirectory, original_filename)))
    ELSE os_path_join(subdirectory, original_filename)

\* os.remove leaving the file where it is.
Remove_nothing(disk, path) == disk

\* os.remove
Remove(disk, path) == [p \in DOMAIN disk \ {path} |-> disk[p]]

\* open(path, 'wb') and the writes that follow
WriteFile(disk, path, content) ==
    [p \in DOMAIN disk \cup {path} |-> IF p = path THEN content ELSE disk[p]]

\* os.rename copying the file and leaving the source in place.
Rename_keeping_source(disk, src, dst) == WriteFile(disk, dst, disk[src])

\* os.rename(src, dst): dst is replaced if it exists
Rename(disk, src, dst) ==
    [p \in (DOMAIN disk \ {src}) \cup {dst} |-> IF p = dst THEN disk[src] ELSE disk[p]]

\* download_pdf writing the download straight into a hash bucket.
TempDir_in_bucket == os_path_join(BASE_DOWNLOAD_DIR, <<"11111111">>)

TempDir == os_path_join(BASE_DOWNLOAD_DIR, <<"temp">>)

Get(client, url) == [client |-> client, url |-> url]

\* Exception classes: the three network ones derive from
\* requests.exceptions.RequestException.
IsRequestException(e) == e \in {"Timeout", "HTTPError", "ChunkedEncodingError"}

\* The handlers of download_pdf: except RequestException, except Exception.
CaughtInDownload(e) == IsRequestException(e) \/ TRUE

\* download_pdfs_from_url catching requests.exceptions.HTTPError only.
CaughtInPage_http_error_only(e) == e = "HTTPError"

\* The handler of download_pdfs_from_url: except RequestException.
CaughtInPage(e) == IsRequestException(e)

\* use_selenium(url): the rendered page's anchors, or None when the browser fails.
use_selenium(resp) ==
    IF resp.selenium = "ok"
    THEN [ok |-> TRUE, links |-> resp.links]
    ELSE [ok |-> FALSE, links |-> <<>>]

\* The try block of download_pdfs_from_url: the requests it issues, the soup
\* it ends with and the exception it raises, if any.
FetchPage(url, resp) ==
    IF resp.exc
    THEN [gets |-> <<Get("session", url)>>, soup |-> [ok |-> FALSE, links |-> <<>>],
          raised |-> "Timeout"]
    ELSE IF resp.status = 403
    THEN [gets |-> <<Get("session", url), Get("selenium", url)>>,
          soup |-> use_selenium(resp), raised |-> "none"]
    ELSE IF resp.status >= 400
    THEN [gets |-> <<Get("session", url)>>, soup |-> [ok |-> FALSE, links |-> <<>>],
          raised |-> "HTTPError"]
    ELSE [gets |-> <<Get("session", url)>>, soup |-> [ok |-> TRUE, links |-> resp.links],
          raised |-> "none"]

\* The loop over soup.find_all('a', href=True): the absolute URLs of the
\* anchors that is_pdf_url accepts, in document order.
PdfLinks(url, links) ==
    SelectSeq([k \in DOMAIN links |-> urljoin(url, links[k])], is_pdf_url)

\* download_pdf(pdf_url, session, unique_hashes) on the files `disk`, the logs
\* `files` and the hash set `hashes`, the site answering `resp`.
download_pdf(pdf_url, resp, disk, files, hashes) ==
    LET same == [disk |-> disk, files |-> files, hashes |-> hashes, raised |-> "none"]
        original_filename == OriginalFilename(pdf_url)
        temp_file_path == os_path_join(TempDir, original_filename)
    IN
    IF resp.exc THEN [same EXCEPT !.raised = "Timeout"]
    ELSE IF resp.status >= 400 THEN [same EXCEPT !.raised = "HTTPError"]
    ELSE IF ~IsPdfContentType(LowerSeq(resp.ctype)) THEN same
    ELSE IF resp.stream = "broken"
    THEN [same EXCEPT !.disk = WriteFile(disk, temp_file_path, Truncated(resp.body)),
                      !.raised = "ChunkedEncodingError"]
    ELSE
    LET written == WriteFile(disk, temp_file_path, resp.body)
        pdf_hash == generate_hash(written, temp_file_path)
    IN
    IF pdf_hash = NoHash
    THEN [same EXCEPT !.disk = Remove(written, temp_file_path)]
    ELSE IF pdf_hash \in hashes
    THEN [disk |-> Remove(written, temp_file_path),
          files |-> add_to_csv(files, DUPLICATE_PDFS_CSV_FILE,
                               <<pdf_url, original_filename, pdf_hash>>),
          hashes |-> hashes, raised |-> "none"]
    ELSE
    LET subdirectory == os_path_join(BASE_DOWNLOAD_DIR, <<pdf_hash[1]>>)
        final_file_path == FinalFilePath(written, subdirectory, original_filename)
    IN  [disk |-> Rename(written, temp_file_path, final_file_path),
         files |-> add_to_csv(
                       add_to_csv(files, UNIQUE_PDFS_CSV_FILE,
                                  <<pdf_url, final_file_path, pdf_hash>>),
                       CSV_FILE_PATH, <<pdf_url, final_file_path>>),
         hashes |-> hashes \cup {pdf_hash}, raised |-> "none"]

EmptyDisk == [p \in {} |-> ""]

Init ==
    /\ \E r1 \in ServerOptions(U_REPORTS), r2 \in ServerOptions(U_PAGE2),
          r3 \in ServerOptions(U_A), r4 \in ServerOptions(U_B),
          r5 \in ServerOptions(U_A2), r6 \in ServerOptions(U_C) :
          server = (U_REPORTS :> r1) @@ (U_PAGE2 :> r2) @@ (U_A :> r3)
                   @@ (U_B :> r4) @@ (U_A2 :> r5) @@ (U_C :> r6)
    /\ unreadable \in {{}, {os_path_join(TempDir, <<"a", ".pdf">>)}}
    /\ urls_to_scrape \in SeedLists
    /\ \E E \in SUBSET StartEmptyCandidates :
          csvFiles = [n \in CsvNames |-> IF n \in E THEN EmptyFile ELSE NoFile]
    /\ fs = EmptyDisk
    /\ visited_urls = {}
    /\ unique_hashes = {}
    /\ pc = "idle"
    /\ i = 1
    /\ pending = <<>>
    /\ gets = <<>>
    /\ run = 0
    /\ pdf_directory = [exists |-> FALSE, entries |-> {}]
    /\ csv_output = NoCsv
    /\ job = "none"
    /\ cache_dir = NoCache
    /\ query = <<>>
    /\ query_vec = <<>>
    /\ results = NotRun

\* main() up to its loop: the four initialize_csv calls and the two loads.
main_start ==
    /\ pc \in {"idle", "done", "aborted"}
    /\ run < MaxRuns
    /\ LET f1 == initialize_csv(csvFiles, CSV_FILE_PATH, LEGACY_HEADER)
           f2 == initialize_csv(f1, VISITED_URLS_CSV_FILE, VISITED_HEADER)
           f3 == initialize_csv(f2, UNIQUE_PDFS_CSV_FILE, HASH_HEADER)
           f4 == initialize_csv(f3, DUPLICATE_PDFS_CSV_FILE, HASH_HEADER)
       IN  /\ csvFiles' = f4
           /\ visited_urls' = load_csv_to_set(f4, VISITED_URLS_CSV_FILE, 0)
           /\ unique_hashes' = load_csv_to_set(f4, UNIQUE_PDFS_CSV_FILE, 2)
    /\ pc' = "loop"
    /\ i' = 1
    /\ pending' = <<>>
    /\ gets' = <<>>
    /\ run' = run + 1
    /\ UNCHANGED <<server, unreadable, urls_to_scrape, fs>>
    /\ UNCHANGED <<extractVars, indexVars>>

\* Where download_pdfs_from_url goes once `rest` is what it still has to download.
Continue(rest) ==
    IF rest = <<>>
    THEN pc' = "loop" /\ i' = i + 1 /\ pending' = <<>>
    ELSE pc' = "download" /\ i' = i /\ pending' = rest

\* download_pdfs_from_url without its visited test.
AlreadyVisited_never(url, visited) == FALSE

AlreadyVisited(url, visited) == url \in visited

\* download_pdfs_from_url(url, ...) for the next seed of main's loop, up to
\* its first download_pdf call.
download_pdfs_from_url ==
    /\ pc = "loop"
    /\ i <= Len(urls_to_scrape)
    /\ LET url == urls_to_scrape[i] IN
       IF AlreadyVisited(url, visited_urls)
       THEN /\ Continue(<<>>)
            /\ UNCHANGED <<visited_urls, csvFiles, gets>>
       ELSE /\ visited_urls' = visited_urls \cup {url}
            /\ csvFiles' = add_to_csv(csvFiles, VISITED_URLS_CSV_FILE, <<url, Timestamp>>)
            /\ IF is_pdf_url(url)
               THEN /\ gets' = gets
                    /\ Continue(<<url>>)
               ELSE LET r == FetchPage(url, server[url]) IN
                    /\ gets' = gets \o r.gets
                    /\ IF r.raised # "none" /\ ~CaughtInPage(r.raised)
                       THEN pc' = "aborted" /\ i' = i /\ pending' = <<>>
                       ELSE IF r.raised # "none" \/ ~r.soup.ok
                       THEN Continue(<<>>)
                       ELSE Continue(PdfLinks(url, r.soup.links))
    /\ UNCHANGED <<server, unreadable, urls_to_scrape, fs, unique_hashes, run>>
    /\ UNCHANGED <<extractVars, indexVars>>

\* One download_pdf call of download_pdfs_from_url (line 211 or 235).
DownloadPdf ==
    /\ pc = "download"
    /\ pending # <<>>
    /\ LET pdf_url == Head(pending)
           r == download_pdf(pdf_url, server[pdf_url], fs, csvFiles, unique_hashes)
       IN  /\ fs' = r.disk
           /\ csvFiles' = r.files
           /\ unique_hashes' = r.hashes
           /\ gets' = Append(gets, Get("session", pdf_url))
           /\ IF r.raised # "none" /\ ~CaughtInDownload(r.raised)
              THEN pc' = "aborted" /\ i' = i /\ pending' = <<>>
              ELSE Continue(Tail(pending))
    /\ UNCHANGED <<server, unreadable, urls_to_scrape, visited_urls, run>>
    /\ UNCHANGED <<extractVars, indexVars>>

\* main() after its loop.
main_finish ==
    /\ pc = "loop"
    /\ i > Len(urls_to_scrape)
    /\ pc' = "done"
    /\ UNCHANGED <<server, unreadable, urls_to_scrape, csvFiles, fs, visited_urls, unique_hashes,
                   i, pending, gets, run>>
    /\ UNCHANGED <<extractVars, indexVars>>

\* What a URL answers once a transient failure of the site is over.
Recovered(url) ==
    CASE url = U_REPORTS -> Html(REPORTS_LINKS)
      [] url = U_PAGE2 -> Html(PAGE2_LINKS)
      [] OTHER -> Pdf(<<"application/pdf">>, "A", "ok")

\* Between two runs of main() a URL whose request timed out answers again.
SiteRecovers ==
    /\ pc = "done"
    /\ run < MaxRuns
    /\ \E url \in URLS :
          /\ server[url].exc
          /\ server' = [server EXCEPT ![url] = Recovered(url)]
    /\ UNCHANGED <<unreadable, urls_to_scrape, csvFiles, fs, visited_urls, unique_hashes,
                   pc, i, pending, gets, run>>
    /\ UNCHANGED <<extractVars, indexVars>>

Next == main_start \/ download_pdfs_from_url \/ DownloadPdf \/ main_finish \/ SiteRecovers

Spec == Init /\ [][Next]_vars

(***************************************************************************)
(* What the claims speak of                                                *)
(***************************************************************************)
HeaderOf(name) ==
    CASE name = CSV_FILE_PATH -> LEGACY_HEADER
      [] name = VISITED_URLS_CSV_FILE -> VISITED_HEADER
      [] OTHER -> HASH_HEADER

\* The rows of a log that are records: all but a header in the first line.
DataRows(name) ==
    LET rows == csvFiles[name].rows
    IN  IF rows # <<>> /\ rows[1] = HeaderOf(name) THEN Tail(rows) ELSE rows

\* The stored PDFs: every file under BASE_DOWNLOAD_DIR but those of temp/.
IsTempPath(path) == SubSeq(path, 1, Len(TempDir)) = TempDir
StoredPaths == {p \in DOMAIN fs : ~IsTempPath(p)}
TempPaths == {p \in DOMAIN fs : IsTempPath(p)}

IsPrefix(s, t) == Len(s) <= Len(t) /\ SubSeq(t, 1, Len(s)) = s

\* The seed download_pdfs_from_url is working on.
CurrentSeed == urls_to_scrape[i]

\* The requests a step adds to this run's requests.
NewGets == IF IsPrefix(gets, gets') THEN SubSeq(gets', Len(gets) + 1, Len(gets')) ELSE <<>>

\* C1 (as claimed): byte-identical content has one row in the unique-download
\* log and one stored file, in one run and across runs that share the log.
C1_OneCopyPerContent ==
    /\ \A p \in StoredPaths : \A q \in StoredPaths : fs[p] = fs[q] => p = q
    /\ \A m \in DOMAIN DataRows(UNIQUE_PDFS_CSV_FILE) :
       \A n \in DOMAIN DataRows(UNIQUE_PDFS_CSV_FILE) :
          DataRows(UNIQUE_PDFS_CSV_FILE)[m][3] = DataRows(UNIQUE_PDFS_CSV_FILE)[n][3]
              => m = n

\* C2 (as claimed): no request is issued for a URL of the visited set, be it
\* a seed or a PDF link of a crawled page (the seed a call has just claimed
\* is the one it is visiting, not a revisit).
C2_VisitedNeverFetched ==
    [][\A k \in DOMAIN NewGets :
          NewGets[k].url \in visited_urls => NewGets[k].url = CurrentSeed]_vars

\* C3 (as claimed): a second run of main over the same seeds and the same
\* site issues no request, stores no file and appends no row to any log.
C3_SecondRunIdempotent ==
    [][run' >= 2 => (gets' = <<>> /\ fs' = fs /\ csvFiles' = csvFiles)]_vars

\* Content types that do not contain 'application/pdf', in any letter case.
NonPdfTypes == {<<"text/html">>, <<>>}

\* C4: a download whose response declares a content type without
\* 'application/pdf' writes no file, temp or stored, appends no row to any
\* log and leaves the known-hash set as it was.
C4_NonPdfWritesNothing ==
    [][(pc = "download" /\ pending # <<>>
        /\ server[Head(pending)].ctype \in NonPdfTypes)
       => (fs' = fs /\ csvFiles' = csvFiles /\ unique_hashes' = unique_hashes)]_vars

\* /files/a.pdf answered 200 text/html and has been requested.
C4_Witness ==
    /\ server[U_A].status = 200 /\ ~server[U_A].exc
    /\ server[U_A].ctype = <<"text/html">>
    /\ \E k \in DOMAIN gets : gets[k].url = U_A

\* C5 (as claimed): in the scenario (seed /reports linking a.pdf twice and
\* /page?page=2, which links b.pdf; every request answered; fresh logs) the
\* run ends with two unique downloads, one duplicate and two visited records.
C5_ScenarioOutcome ==
    (/\ urls_to_scrape = SCENARIO_SEEDS
     /\ run = 1 /\ pc = "done"
     /\ server[U_REPORTS] = Html(REPORTS_LINKS)
     /\ server[U_PAGE2] = Html(PAGE2_LINKS)
     /\ server[U_A] = Pdf(<<"application/pdf">>, "A", "ok")
     /\ server[U_B] = Pdf(<<"application/pdf">>, "B", "ok")
     /\ \A n \in CsvNames : csvFiles[n].rows[1] = HeaderOf(n))
    => /\ Len(DataRows(UNIQUE_PDFS_CSV_FILE)) = 2
       /\ Len(DataRows(DUPLICATE_PDFS_CSV_FILE)) = 1
       /\ Len(DataRows(VISITED_URLS_CSV_FILE)) = 2

\* The responses with which a page fetch, or a download, fails.
PageFails(resp) ==
    resp.exc \/ (resp.status = 403 /\ resp.selenium = "fail")
             \/ (resp.status >= 400 /\ resp.status # 403)
DownloadFails(resp) == resp.exc \/ resp.status >= 400 \/ resp.stream = "broken"

\* C6: a failed fetch or download never aborts the crawl (main goes on with
\* what follows and ends with every seed processed) and the failing step adds
\* no unique-download or duplicate record.
C6_FailureDoesNotAbort ==
    /\ [](pc # "aborted")
    /\ [](pc = "done" => \A k \in DOMAIN urls_to_scrape : urls_to_scrape[k] \in visited_urls)
    /\ [][((\/ (pc = "loop" /\ i <= Len(urls_to_scrape)
                 /\ CurrentSeed \notin visited_urls /\ ~is_pdf_url(CurrentSeed)
                 /\ PageFails(server[CurrentSeed]))
            \/ (pc = "download" /\ pending # <<>> /\ DownloadFails(server[Head(pending)])))
           => /\ csvFiles'[UNIQUE_PDFS_CSV_FILE] = csvFiles[UNIQUE_PDFS_CSV_FILE]
              /\ csvFiles'[DUPLICATE_PDFS_CSV_FILE] = csvFiles[DUPLICATE_PDFS_CSV_FILE]
              /\ pc' \in {"loop", "download"}
              /\ (pc' = "loop" => i' = i + 1))]_vars

\* /reports failed and the seeds after it were processed all the same.
C6_Witness ==
    /\ urls_to_scrape = MIXED_SEEDS /\ run = 1 /\ pc = "done"
    /\ server[U_REPORTS] = Timeout /\ server[U_A] = HttpError(404)
    /\ \E k \in DOMAIN gets : gets[k].url = U_REPORTS
    /\ \E k \in DOMAIN gets : gets[k].url = U_PAGE2
    /\ U_A2 \in visited_urls

\* C7 (as claimed): the headless browser is used for a URL only after the
\* anti-bot-bypass client has been tried for it.
C7_BypassBeforeBrowser ==
    \A k \in DOMAIN gets :
        gets[k].client = "selenium"
        => \E j \in 1..(k - 1) :
              gets[j].client = "cloudscraper" /\ gets[j].url = gets[k].url

\* The bucket of a stored path and the file name in it.
BucketOf(path) == path[Len(BASE_DOWNLOAD_DIR) + 2]
NameOf(path) == SubSeq(path, Len(BASE_DOWNLOAD_DIR) + 4, Len(path))
InBucket(bucket, name) == os_path_join(os_path_join(BASE_DOWNLOAD_DIR, <<bucket>>), name)

\* C8: a file enters the store in the bucket named by the first 8 hex
\* characters of its content hash, under the original file name if that path
\* is free and otherwise under the first <base>_<n><ext>, n = 1, 2, ..., that
\* is free; no step replaces, changes or removes a stored file.
C8_StoredUnderFirstFreeName ==
    [][/\ \A q \in StoredPaths : q \in DOMAIN fs' /\ fs'[q] = fs[q]
       /\ \A p \in {q \in DOMAIN fs' : ~IsTempPath(q)} \ StoredPaths :
            LET name == OriginalFilename(Head(pending))
                bucket == MD5(fs'[p])[1]
            IN  /\ pc = "download"
                /\ BucketOf(p) = bucket
                /\ p = InBucket(bucket, NameOf(p))
                /\ IF InBucket(bucket, name) \notin DOMAIN fs
                   THEN NameOf(p) = name
                   ELSE \E n \in 1..Cardinality(DOMAIN fs) :
                          /\ NameOf(p) = Suffixed(name, n)
                          /\ \A d \in 1..(n - 1) :
                               InBucket(bucket, Suffixed(name, d)) \in DOMAIN fs]_vars

\* Two files named a.pdf with different content met in one bucket: both are
\* stored, the second as a_1.pdf.
C8_Witness ==
    /\ InBucket("11111111", <<"a", ".pdf">>) \in DOMAIN fs
    /\ InBucket("11111111", <<"a", "_1", ".pdf">>) \in DOMAIN fs
    /\ fs[InBucket("11111111", <<"a", ".pdf">>)] = "A"
    /\ fs[InBucket("11111111", <<"a", "_1", ".pdf">>)] = "K"

UniqueRows == csvFiles[UNIQUE_PDFS_CSV_FILE].rows
DuplicateRows == csvFiles[DUPLICATE_PDFS_CSV_FILE].rows

\* A response from which download_pdf gets a whole PDF.
Downloads(url) ==
    /\ ~server[url].exc /\ server[url].status = 200 /\ server[url].stream = "ok"
    /\ server[url].ctype \notin NonPdfTypes
    /\ \A p \in unreadable : LastSegment(p) # LastSegment(url)

\* C9: the unique and duplicate logs only grow at their end; a download of
\* content not yet known adds one row (URL, path of the file now holding that
\* content, hash) to the unique log and none to the duplicate log, a download
\* of known content one row to the duplicate log and none to the unique log,
\* and nothing else adds a row to either.
C9_LogsAppendOnly ==
    [][/\ \A n \in CsvNames : IsPrefix(csvFiles[n].rows, csvFiles'[n].rows)
       /\ LET newUnique == Len(UniqueRows') - Len(UniqueRows)
              newDuplicate == Len(DuplicateRows') - Len(DuplicateRows)
              isDownload == pc = "download" /\ pending # <<>>
                            /\ Downloads(Head(pending))
          IN  IF run' # run
              THEN newUnique \in {0, 1} /\ newDuplicate \in {0, 1}
              ELSE IF isDownload /\ MD5(server[Head(pending)].body) \notin unique_hashes
              THEN /\ newUnique = 1 /\ newDuplicate = 0
                   /\ LET row == UniqueRows'[Len(UniqueRows')]
                      IN  /\ row[1] = Head(pending)
                          /\ row[2] \in DOMAIN fs' \ DOMAIN fs
                          /\ fs'[row[2]] = server[Head(pending)].body
                          /\ row[3] = MD5(server[Head(pending)].body)
              ELSE IF isDownload
              THEN /\ newUnique = 0 /\ newDuplicate = 1
                   /\ DuplicateRows'[Len(DuplicateRows')][1] = Head(pending)
                   /\ DuplicateRows'[Len(DuplicateRows')][3]
                          = MD5(server[Head(pending)].body)
              ELSE newUnique = 0 /\ newDuplicate = 0]_vars

\* Both logs hold records: two unique downloads and two duplicates.
C9_Witness ==
    /\ Len(DataRows(UNIQUE_PDFS_CSV_FILE)) >= 2
    /\ Len(DataRows(DUPLICATE_PDFS_CSV_FILE)) >= 2

\* C16 (as claimed): once main has started, each of the four logs begins
\* with its header row, also when the file was there with no content at
\* startup; hence no record is in line 1 and load_csv_to_set, which skips
\* line 1, loads the URL of every visited record and the hash of every
\* unique-download record.
C16_HeaderFirst ==
    run >= 1
    => /\ \A n \in CsvNames :
             /\ csvFiles[n].exists /\ csvFiles[n].rows # <<>>
             /\ csvFiles[n].rows[1] = HeaderOf(n)
       /\ load_csv_to_set(csvFiles, VISITED_URLS_CSV_FILE, 0)
             = {DataRows(VISITED_URLS_CSV_FILE)[k][1] :
                   k \in DOMAIN DataRows(VISITED_URLS_CSV_FILE)}
       /\ load_csv_to_set(csvFiles, UNIQUE_PDFS_CSV_FILE, 2)
             = {DataRows(UNIQUE_PDFS_CSV_FILE)[k][3] :
                   k \in DOMAIN DataRows(UNIQUE_PDFS_CSV_FILE)}

\* The URL has a record in the unique-download log or in the duplicate log.
HasRecord(url) ==
    \/ \E k \in DOMAIN DataRows(UNIQUE_PDFS_CSV_FILE) :
          DataRows(UNIQUE_PDFS_CSV_FILE)[k][1] = url
    \/ \E k \in DOMAIN DataRows(DUPLICATE_PDFS_CSV_FILE) :
          DataRows(DUPLICATE_PDFS_CSV_FILE)[k][1] = url

\* C17 (as claimed): marking a URL visited loses no work: when main is run
\* again after a run in which a fetch failed, every seed PDF URL that the
\* site serves during that later run has a unique-download or duplicate
\* record when the run ends; no URL stays visited, never downloaded and
\* never attempted again.
C17_NoWorkLost ==
    [][(pc = "loop" /\ pc' = "done" /\ run >= 2)
       => \A k \in DOMAIN urls_to_scrape :
             (is_pdf_url(urls_to_scrape[k]) /\ Downloads(urls_to_scrape[k]))
             => HasRecord(urls_to_scrape[k])']_vars

\* C18 (as claimed): after main's startup and after every
\* download_pdfs_from_url and download_pdf call, failed ones included, the
\* hash set is the set of the hashes of the unique-download log and the
\* visited set is the set of the URLs of the visited-URL log.
C18_MemoryMirrorsLogs ==
    run >= 1
    => /\ unique_hashes = {DataRows(UNIQUE_PDFS_CSV_FILE)[k][3] :
                              k \in DOMAIN DataRows(UNIQUE_PDFS_CSV_FILE)}
       /\ visited_urls = {DataRows(VISITED_URLS_CSV_FILE)[k][1] :
                             k \in DOMAIN DataRows(VISITED_URLS_CSV_FILE)}

\* The rows of the visited-URL log a step adds.
NewVisitedRows ==
    SubSeq(csvFiles'[VISITED_URLS_CSV_FILE].rows,
           Len(csvFiles[VISITED_URLS_CSV_FILE].rows) + 1,
           Len(csvFiles'[VISITED_URLS_CSV_FILE].rows))

\* C19 (as claimed): a URL that passes the visited check is added to the
\* visited set and appended to the visited-URL log in the same call, before
\* any request for it; so the log never has two rows for one URL, in one
\* run or across runs, and its rows are never rewritten or removed.
C19_VisitedLogOneRowPerUrl ==
    /\ [][/\ IsPrefix(csvFiles[VISITED_URLS_CSV_FILE].rows,
                      csvFiles'[VISITED_URLS_CSV_FILE].rows)
          /\ (pc = "loop" /\ i <= Len(urls_to_scrape) /\ CurrentSeed \notin visited_urls)
             => /\ NewVisitedRows = <<<<CurrentSeed, Timestamp>>>>
                /\ visited_urls' = visited_urls \cup {CurrentSeed}]_vars
    /\ [](\A j, k \in DOMAIN DataRows(VISITED_URLS_CSV_FILE) :
             DataRows(VISITED_URLS_CSV_FILE)[j][1] = DataRows(VISITED_URLS_CSV_FILE)[k][1]
             => j = k)

\* The temporary file download_pdf writes for a URL.
TempFileOf(url) == os_path_join(TempDir, OriginalFilename(url))

IsFinalPath(path) == BucketOf(path) # "temp"

\* The bodies the site serves: what a complete download holds.
CompleteContents == {"A", "K", "B"}

\* C21: a file at a final hash-bucket path holds a complete downloaded
\* content, and so does the file each row of the unique-download log names;
\* the partial file of a download that failed in the middle of the stream
\* is under the temp directory only.
C21_FinalPathsComplete ==
    /\ \A p \in DOMAIN fs : IsFinalPath(p) => fs[p] \in CompleteContents
    /\ \A k \in DOMAIN DataRows(UNIQUE_PDFS_CSV_FILE) :
          LET row == DataRows(UNIQUE_PDFS_CSV_FILE)[k]
          IN  /\ row[2] \in DOMAIN fs
              /\ IsFinalPath(row[2])
              /\ fs[row[2]] = server[row[1]].body
              /\ row[3] = MD5(fs[row[2]])

\* A download broke off in the middle of its stream and left its partial
\* file under temp/, next to a file stored whole and logged.
C21_Witness ==
    /\ \E p \in DOMAIN fs : ~IsFinalPath(p) /\ fs[p] \notin CompleteContents
    /\ \E p \in DOMAIN fs : IsFinalPath(p)
    /\ Len(DataRows(UNIQUE_PDFS_CSV_FILE)) >= 1
    /\ pc = "done"

\* The response reaches the stream of download_pdf: no exception from the
\* request, no error status, a PDF content type.
StreamStarts(resp) ==
    ~resp.exc /\ resp.status < 400 /\ resp.ctype \notin NonPdfTypes

\* C22 as claimed: when download_pdf has returned, by whichever path, the
\* temp directory holds no file for that download.
C22_TempAlwaysCleared ==
    [][(pc = "download" /\ pending # <<>>)
       => TempFileOf(Head(pending)) \notin DOMAIN fs']_vars

\* C22: when download_pdf has returned after a whole stream (unique,
\* duplicate or hash failure) the temp directory holds no file for that
\* download; a return before the stream (request error, error status,
\* non-PDF content type) touches no file; after an error in the middle of the
\* stream the partial temp file is still there.
C22_TempClearedUnlessStreamBreaks ==
    [][(pc = "download" /\ pending # <<>>)
       => LET resp == server[Head(pending)]
              temp_file_path == TempFileOf(Head(pending))
          IN  /\ (StreamStarts(resp) /\ resp.stream = "ok")
                    => temp_file_path \notin DOMAIN fs'
              /\ ~StreamStarts(resp) => fs' = fs
              /\ (StreamStarts(resp) /\ resp.stream = "broken")
                    => /\ temp_file_path \in DOMAIN fs'
                       /\ fs'[temp_file_path] = Truncated(resp.body)
                       /\ \A p \in DOMAIN fs' \ {temp_file_path} :
                             p \in DOMAIN fs /\ fs'[p] = fs[p]]_vars

\* The last download of the run stored its file and left nothing under temp/
\* although an earlier download of the run broke off in its stream.
C22_Witness ==
    /\ gets # <<>> /\ UniqueRows # <<>>
    /\ UniqueRows[Len(UniqueRows)][1] = gets[Len(gets)].url
    /\ TempFileOf(gets[Len(gets)].url) \notin DOMAIN fs
    /\ \E k \in DOMAIN gets :
          /\ StreamStarts(server[gets[k].url])
          /\ server[gets[k].url].stream = "broken"
          /\ TempFileOf(gets[k].url) \in DOMAIN fs

\* main is in its loop over urls_to_scrape.
Crawling == pc \in {"loop", "download"}

\* The files of a bucket directory.
FilesOfBucket(disk, bucket) == {p \in DOMAIN disk : BucketOf(p) = bucket}

\* C23: a run of main that has started returns: while it is in its loop the
\* guard of a next step holds (a seed to take, a link to download, or the
\* end of the list), and every step either returns from main
\* after the last seed, or moves to the next seed, or goes from a seed to the
\* first link of its page, or takes one link off the page's list, so the
\* position in the seed list never goes back and stays within the list; a
\* seed URL is claimed (logged as visited) at most once in a run, a second
\* occurrence being skipped without a request; and a file that enters the
\* store under a suffixed name got the least suffix free in its bucket,
\* found within as many tries as the bucket had files.
C23_CrawlTerminates ==
    /\ [](Crawling => /\ i \in 1..(Len(urls_to_scrape) + 1)
                       /\ pc = "download" => pending # <<>>)
    /\ [][Crawling =>
            /\ i' >= i /\ i' <= Len(urls_to_scrape) + 1
            /\ \/ pc' = "done" /\ i > Len(urls_to_scrape)
               \/ i' = i + 1 /\ pc' = "loop"
               \/ i' = i /\ pc = "loop" /\ pc' = "download" /\ pending' # <<>>
               \/ i' = i /\ pc = "download" /\ pc' = "download"
                         /\ pending' = Tail(pending)
            /\ \A r \in DOMAIN NewVisitedRows :
                  /\ NewVisitedRows[r][1] = CurrentSeed
                  /\ \A k \in 1..(i - 1) : urls_to_scrape[k] # CurrentSeed
            /\ (pc = "loop" /\ i <= Len(urls_to_scrape)
                /\ \E k \in 1..(i - 1) : urls_to_scrape[k] = CurrentSeed)
                  => (gets' = gets /\ i' = i + 1 /\ csvFiles' = csvFiles)
            /\ \A p \in {q \in DOMAIN fs' : IsFinalPath(q)} \ DOMAIN fs :
                  \A n \in 1..(Cardinality(DOMAIN fs) + 1) :
                     NameOf(p) = Suffixed(OriginalFilename(Head(pending)), n)
                        => /\ n <= Cardinality(FilesOfBucket(fs, BucketOf(p)))
                           /\ \A d \in 1..(n - 1) :
                                InBucket(BucketOf(p),
                                    Suffixed(OriginalFilename(Head(pending)), d))
                                  \in DOMAIN fs]_vars

\* A run over a seed list that names a URL twice has returned, with one
\* request in all.
C23_Witness ==
    /\ pc = "done"
    /\ urls_to_scrape = REPEATED_SEEDS
    /\ Len(gets) = 1
    /\ i = Len(urls_to_scrape) + 1

\* C24 (as claimed): a call whose request ends in a transient network
\* exception attempts the request again before it gives the URL up (the call
\* issues it at least twice), and a call whose request is answered with an
\* HTTP error status does not repeat it, the 403 escalation to the browser
\* aside.
C24_TransientFetchRetried ==
    [][\A k \in DOMAIN NewGets :
          LET resp == server[NewGets[k].url]
              attempts == {j \in DOMAIN NewGets : NewGets[j] = NewGets[k]}
          IN  /\ resp.exc => Cardinality(attempts) >= 2
              /\ (~resp.exc /\ resp.status >= 400) => Cardinality(attempts) = 1]_vars

\* The path component of a URL: what precedes its query string or fragment.
PathOf(url) ==
    LET S == {k \in 1..Len(url) : url[k] \in {"?", "#"}}
    IN  IF S = {} THEN url ELSE SubSeq(url, 1, (CHOOSE m \in S : \A k \in S : m <= k) - 1)

PathEndsInPdf(url) == EndsWithPdf(LowerSeq(PathOf(url)))

\* C25 (as claimed): of the anchors of a page that was fetched, the ones
\* handed to download_pdf are exactly those whose absolute URL (the href
\* resolved against the page URL) has a path ending in '.pdf', whatever the
\* letter case and whatever query string or fragment follows the path.
C25_PdfLinkByPath ==
    [][(/\ pc = "loop" /\ i <= Len(urls_to_scrape)
        /\ ~AlreadyVisited(CurrentSeed, visited_urls)
        /\ ~is_pdf_url(CurrentSeed)
        /\ FetchPage(CurrentSeed, server[CurrentSeed]).soup.ok)
       => LET links == FetchPage(CurrentSeed, server[CurrentSeed]).soup.links
              full_urls == [k \in DOMAIN links |-> urljoin(CurrentSeed, links[k])]
          IN  pending' = SelectSeq(full_urls, PathEndsInPdf)]_vars

(***************************************************************************)
(* pdf_to_csv.py and pdf_to_csv_recursive.py                               *)
(*                                                                         *)
(* A PDF is corrupt (pdfplumber.open raises) or a sequence of pages; a     *)
(* page is what page.extract_text() returns: a text, '' or None.  A text   *)
(* is a sequence of tokens.  A directory entry is [dir, name] with dir the *)
(* subdirectory (<<>> for pdf_directory itself).                           *)
(***************************************************************************)
None == "<None>"
Corrupt == [ok |-> FALSE, pages |-> <<>>]
Document(pages) == [ok |-> TRUE, pages |-> pages]
Documents ==
    {Corrupt, Document(<<"alpha">>), Document(<<"alpha", None, "beta">>),
     Document(<<None>>), Document(<<"", "beta">>)}

Entry(dir, name) == [dir |-> dir, name |-> name]
Slots ==
    {Entry(<<>>, <<"x", ".pdf">>), Entry(<<>>, <<"y", ".PDF">>),
     Entry(<<>>, <<"notes", ".txt">>), Entry(<<"11111111">>, <<"x", ".pdf">>)}

\* The orders in which the files S may be listed.
Orderings(S) ==
    {o \in [1..Cardinality(S) -> S] : \A a, b \in 1..Cardinality(S) : o[a] = o[b] => a = b}

\* Exception classes the extraction raises; both derive from Exception.
IsException(e) == e \in {"PDFSyntaxError", "TypeError"}

\* pdf_to_csv.py, the try block of extract_text_from_pdf: the debug line
\* slices page_text before the test for a page without text.
RECURSIVE PagesText_flat(_)
PagesText_flat(pages) ==
    IF pages = <<>> THEN [raised |-> "none", text |-> <<>>]
    ELSE IF Head(pages) = None THEN [raised |-> "TypeError", text |-> <<>>]
    ELSE LET rest == PagesText_flat(Tail(pages))
         IN  IF rest.raised # "none" THEN rest
             ELSE [raised |-> "none",
                   text |-> (IF Head(pages) # "" THEN <<Head(pages), "\n">> ELSE <<>>)
                            \o rest.text]

\* pdf_to_csv_recursive.py, the try block of extract_text_from_pdf.
RECURSIVE PagesText_recursive(_)
PagesText_recursive(pages) ==
    IF pages = <<>> THEN <<>>
    ELSE (IF Head(pages) # None /\ Head(pages) # ""
          THEN <<Head(pages), "\n">> ELSE <<>>) \o PagesText_recursive(Tail(pages))

\* except Exception, in pdf_to_csv_recursive.py catching TypeError only.
CaughtInExtract_type_error_only(e) == e = "TypeError"

\* except Exception, in each of the two files.
CaughtInExtract_flat(e) == IsException(e)
CaughtInExtract_recursive(e) == IsException(e)

\* What a try block's result becomes under its handler: '' when the
\* exception is caught.
Handled(r, caught) ==
    IF r.raised # "none" /\ caught THEN [raised |-> "none", text |-> <<>>] ELSE r

extract_text_from_pdf_flat(doc) ==
    LET r == IF ~doc.ok THEN [raised |-> "PDFSyntaxError", text |-> <<>>]
             ELSE PagesText_flat(doc.pages)
    IN  Handled(r, CaughtInExtract_flat(r.raised))

extract_text_from_pdf_recursive(doc) ==
    LET r == IF ~doc.ok THEN [raised |-> "PDFSyntaxError", text |-> <<>>]
             ELSE [raised |-> "none", text |-> PagesText_recursive(doc.pages)]
    IN  Handled(r, CaughtInExtract_recursive(r.raised))

\* [f for f in os.listdir(pdf_directory) if f.endswith(".pdf")]
ListedPdfs(entries) == {e \in DOMAIN entries : e.dir = <<>> /\ EndsWithPdf(e.name)}

\* find_pdfs_recursively: os.walk, file.lower().endswith(".pdf")
find_pdfs_recursively(entries) == {e \in DOMAIN entries : EndsWithPdf(LowerSeq(e.name))}

\* os.walk lists the directory before its subdirectories.
WalkOrderings(S) ==
    {o \in Orderings(S) :
        \A a, b \in DOMAIN o : (o[a].dir = <<>> /\ o[b].dir # <<>>) => a < b}

\* The loop over the files and df.to_csv of the job `name`: the job stops
\* at the first exception that leaves extract_text_from_pdf, before it
\* writes the CSV; the CSV written replaces the one there was.
WriteCorpus(name, order, data) ==
    IF \E k \in DOMAIN order : data[k].raised # "none"
    THEN /\ job' = "aborted"
         /\ UNCHANGED csv_output
    ELSE /\ job' = name
         /\ csv_output' =
              [exists |-> TRUE, columns |-> CORPUS_COLUMNS,
               rows |-> [k \in DOMAIN order |->
                           [filename |-> order[k].name, content |-> data[k].text]]]

\* pdfs_to_csv of pdf_to_csv.py
pdfs_to_csv_flat ==
    /\ IF ~pdf_directory.exists \/ ListedPdfs(pdf_directory.entries) = {}
       THEN job' = "pdf_to_csv" /\ UNCHANGED csv_output
       ELSE \E order \in Orderings(ListedPdfs(pdf_directory.entries)) :
              WriteCorpus("pdf_to_csv", order,
                  [k \in DOMAIN order |->
                     extract_text_from_pdf_flat(pdf_directory.entries[order[k]])])
    /\ UNCHANGED <<crawlVars, pdf_directory, indexVars>>

\* pdfs_to_csv of pdf_to_csv_recursive.py (os.walk of a missing directory
\* yields nothing)
pdfs_to_csv_recursive ==
    /\ IF ~pdf_directory.exists \/ find_pdfs_recursively(pdf_directory.entries) = {}
       THEN job' = "pdf_to_csv_recursive" /\ UNCHANGED csv_output
       ELSE \E order \in WalkOrderings(find_pdfs_recursively(pdf_directory.entries)) :
              WriteCorpus("pdf_to_csv_recursive", order,
                  [k \in DOMAIN order |->
                     extract_text_from_pdf_recursive(pdf_directory.entries[order[k]])])
    /\ UNCHANGED <<crawlVars, pdf_directory, indexVars>>

\* The extractors run over a directory of any of the files of Slots, the
\* crawler at rest.
InitExtract ==
    /\ server = [u \in URLS |-> Timeout]
    /\ unreadable = {}
    /\ urls_to_scrape = <<>>
    /\ csvFiles = [n \in CsvNames |-> NoFile]
    /\ fs = EmptyDisk
    /\ visited_urls = {}
    /\ unique_hashes = {}
    /\ pc = "idle"
    /\ i = 1
    /\ pending = <<>>
    /\ gets = <<>>
    /\ run = 0
    /\ \/ pdf_directory = [exists |-> FALSE, entries |-> [e \in {} |-> Corrupt]]
       \/ \E present \in SUBSET Slots : \E docs \in [present -> Documents] :
             pdf_directory = [exists |-> TRUE, entries |-> docs]
    /\ csv_output = NoCsv
    /\ job = "none"
    /\ cache_dir = NoCache
    /\ query = <<>>
    /\ query_vec = <<>>
    /\ results = NotRun

NextExtract == pdfs_to_csv_flat \/ pdfs_to_csv_recursive

SpecExtract == InitExtract /\ [][NextExtract]_vars

\* The PDF files a job finds: pdf_to_csv.py those of the directory itself
\* named *.pdf, pdf_to_csv_recursive.py those of the tree named *.pdf in any
\* letter case.
FoundBy(name) ==
    IF name = "pdf_to_csv"
    THEN {e \in DOMAIN pdf_directory.entries :
             e.dir = <<>> /\ e.name[Len(e.name)] = ".pdf"}
    ELSE {e \in DOMAIN pdf_directory.entries : e.name[Len(e.name)] \in {".pdf", ".PDF"}}

\* C10: after pdfs_to_csv (either file) has found PDF files, the corpus has
\* exactly one row per file found, under the file's name; the row of a file
\* whose extraction raises has empty content; and no exception ends the job
\* before the rows of the other files are written.
C10_OneRowPerPdf ==
    /\ job # "aborted"
    /\ (job \in {"pdf_to_csv", "pdf_to_csv_recursive"} /\ FoundBy(job) # {})
       => /\ csv_output.exists
          /\ Len(csv_output.rows) = Cardinality(FoundBy(job))
          /\ \E o \in Orderings(FoundBy(job)) :
               \A k \in DOMAIN o :
                  /\ csv_output.rows[k].filename = o[k].name
                  /\ ~pdf_directory.entries[o[k]].ok => csv_output.rows[k].content = <<>>

\* The recursive job met a corrupt PDF and wrote its empty row and the text
\* of another file.
C10_Witness ==
    /\ job = "pdf_to_csv_recursive"
    /\ \E e \in FoundBy(job) : ~pdf_directory.entries[e].ok
    /\ \E k \in DOMAIN csv_output.rows : csv_output.rows[k].content = <<>>
    /\ \E k \in DOMAIN csv_output.rows : csv_output.rows[k].content = <<"alpha", "\n">>

\* The text of a PDF as the claim states it: the text of every page that has
\* text, in page order, each followed by a newline.
RECURSIVE TextOfPages(_)
TextOfPages(pages) ==
    IF pages = <<>> THEN <<>>
    ELSE (IF Head(pages) \notin {None, ""} THEN <<Head(pages), "\n">> ELSE <<>>)
         \o TextOfPages(Tail(pages))

\* C26 (as claimed): the row of every PDF that could be opened holds the text
\* of its pages that have text, in page order, each followed by a newline; a
\* page without text adds nothing and takes nothing away, and a PDF without
\* any text has a row with empty content.
C26_TextOfEveryPage ==
    (job \in {"pdf_to_csv", "pdf_to_csv_recursive"} /\ FoundBy(job) # {})
    => /\ csv_output.exists
       /\ \E o \in Orderings(FoundBy(job)) :
            /\ Len(csv_output.rows) = Len(o)
            /\ \A k \in DOMAIN o :
                 /\ csv_output.rows[k].filename = o[k].name
                 /\ pdf_directory.entries[o[k]].ok
                      => csv_output.rows[k].content
                           = TextOfPages(pdf_directory.entries[o[k]].pages)

\* pdf_directory has no subdirectories.
IsFlatDirectory ==
    pdf_directory.exists /\ \A e \in DOMAIN pdf_directory.entries : e.dir = <<>>

\* The rows the job that ran last produced: none when it found no PDF file
\* (it then leaves the CSV as it was).
ProducedRows(name, csv) ==
    IF FoundBy(name) = {} \/ ~csv.exists THEN {}
    ELSE {csv.rows[k] : k \in DOMAIN csv.rows}

\* C30 (as claimed): run one after the other over a directory without
\* subdirectories, the two pdfs_to_csv produce the same set of rows.
C30_FlatAndRecursiveAgree ==
    [][(/\ IsFlatDirectory
        /\ job \in {"pdf_to_csv", "pdf_to_csv_recursive"}
        /\ job' \in {"pdf_to_csv", "pdf_to_csv_recursive"}
        /\ job' # job)
       => ProducedRows(job', csv_output') = ProducedRows(job, csv_output)]_vars

(***************************************************************************)
(* process_csv.py and search_csv.py                                        *)
(*                                                                         *)
(* A text is a sequence of tokens: words and "\n".  A floating-point       *)
(* number is a fixed-point integer, ONE standing for 1.0.  A vector is a   *)
(* sequence of numbers, one for each column: column j of the matrix is     *)
(* element j + 1.                                                          *)
(***************************************************************************)
ONE == 1000

\* ONE * ln(k) for k = 1, ..., 8
LN == <<0, 693, 1099, 1386, 1609, 1792, 1946, 2079>>

\* The largest r of lo..hi with r * r <= x.
RECURSIVE SqrtIn(_, _, _)
SqrtIn(x, lo, hi) ==
    IF lo = hi THEN lo
    ELSE LET mid == (lo + hi + 1) \div 2
         IN  IF mid * mid <= x THEN SqrtIn(x, mid, hi) ELSE SqrtIn(x, lo, mid - 1)

\* np.sqrt
Sqrt(x) == SqrtIn(x, 0, IF x < 40000 THEN x ELSE 40000)

RECURSIVE SumSeq(_)
SumSeq(s) == IF s = <<>> THEN 0 ELSE Head(s) + SumSeq(Tail(s))

Dot(a, b) == SumSeq([j \in DOMAIN a |-> a[j] * b[j]])

\* sklearn.preprocessing.normalize(v, norm='l2'): a zero vector stays zero.
Normalize(v) ==
    LET norm == Sqrt(Dot(v, v))
    IN  IF norm = 0 THEN v ELSE [j \in DOMAIN v |-> (v[j] * ONE) \div norm]

\* The words of sklearn's ENGLISH_STOP_WORDS that the texts use.
ENGLISH_STOP_WORDS == {"of", "the", "and"}

\* token_pattern r"(?u)\b\w\w+\b": a token is a word of two characters or more.
TokenPattern(w) == w \notin {"\n", "a", ""}

\* The analyzer of a TfidfVectorizer: lower-case, tokenize, drop stop words.
Analyze(text, stop_words) ==
    SelectSeq(LowerSeq(text), LAMBDA w : TokenPattern(w) /\ w \notin stop_words)

\* Every term of the texts, in the order in which str sorts them.
SORTED_TERMS ==
    <<"alpha", "barcelona", "beta", "city", "climate", "energy", "housing", "local",
      "of", "report", "review", "the", "transport", "voluntary", "water">>
Rank(t) == CHOOSE k \in DOMAIN SORTED_TERMS : SORTED_TERMS[k] = t

Count(s, w) == Cardinality({k \in DOMAIN s : s[k] = w})

max_features == 10000

\* CountVectorizer._limit_features: the max_features terms of highest
\* frequency over the corpus, the alphabetically first of equal frequency.
LimitFeatures(terms, docs, limit) ==
    LET tfs(t) == SumSeq([k \in DOMAIN docs |-> Count(docs[k], t)])
        Before(u, t) == tfs(u) > tfs(t) \/ (tfs(u) = tfs(t) /\ Rank(u) < Rank(t))
    IN  IF Cardinality(terms) <= limit THEN terms
        ELSE {t \in terms : Cardinality({u \in terms : Before(u, t)}) < limit}

\* vocabulary_: term -> column index, the terms in sorted order from 0.
Vocabulary(terms) ==
    [t \in terms |-> Cardinality({u \in terms : Rank(u) < Rank(t)})]

\* The term of column j.
TermAt(vocabulary, j) == CHOOSE t \in DOMAIN vocabulary : vocabulary[t] = j

\* TfidfTransformer.fit (smooth_idf): idf_[j] = ln((1 + n) / (1 + df_j)) + 1
Idf(docs, vocabulary) ==
    [j \in 1..Cardinality(DOMAIN vocabulary) |->
        LN[1 + Len(docs)]
        - LN[1 + Cardinality({k \in DOMAIN docs :
                                 Count(docs[k], TermAt(vocabulary, j - 1)) > 0})]
        + ONE]

\* TfidfTransformer.transform: term counts times idf, each row l2-normalised.
TfidfRow(doc, vocabulary, idf) ==
    Normalize([j \in DOMAIN idf |-> Count(doc, TermAt(vocabulary, j - 1)) * idf[j]])

\* A missing value of a data frame.
NaN == <<"<NaN>">>

\* pd.read_csv: no columns to parse from a file of no bytes; an empty field
\* is read as a missing value.
read_csv(csv) ==
    IF ~csv.exists THEN [raised |-> "FileNotFoundError", columns |-> <<>>, rows |-> <<>>]
    ELSE IF csv.columns = <<>>
    THEN [raised |-> "EmptyDataError", columns |-> <<>>, rows |-> <<>>]
    ELSE [raised |-> "none", columns |-> csv.columns,
          rows |-> [k \in DOMAIN csv.rows |->
                      [f \in DOMAIN csv.rows[k] |->
                          IF csv.rows[k][f] = <<>> THEN NaN ELSE csv.rows[k][f]]]]

HasColumn(df, name) == \E c \in DOMAIN df.columns : df.columns[c] = name

\* df['content'].fillna('').tolist()
Texts(df) ==
    [k \in DOMAIN df.rows |-> IF df.rows[k].content = NaN THEN <<>> ELSE df.rows[k].content]

\* TfidfVectorizer(stop_words='english', max_features=10000).fit_transform(texts)
fit_transform(texts) ==
    LET docs == [k \in DOMAIN texts |-> Analyze(texts[k], ENGLISH_STOP_WORDS)]
        terms == UNION {{docs[k][n] : n \in DOMAIN docs[k]} : k \in DOMAIN docs}
        vocabulary == Vocabulary(LimitFeatures(terms, docs, max_features))
        idf == Idf(docs, vocabulary)
    IN  IF terms = {}
        THEN [raised |-> "ValueError", vocabulary_ |-> <<>>, idf_ |-> <<>>,
              tfidf_matrix |-> <<>>]
        ELSE [raised |-> "none", vocabulary_ |-> vocabulary, idf_ |-> idf,
              tfidf_matrix |-> [k \in DOMAIN docs |-> TfidfRow(docs[k], vocabulary, idf)]]

\* The saves that may fail in a run of process_csv.
Faults == {"none", "save_npz", "savez_compressed"}

\* process_csv from the vectorization on: the matrix is saved first, then
\* the vocabulary and the IDF values; a failure ends the function there.
BuildAndSave(df, cache, fault) ==
    LET built == fit_transform(Texts(df))
        made == [cache EXCEPT !.exists = TRUE]
        with_matrix ==
            [made EXCEPT !.tfidf_matrix = [exists |-> TRUE, rows |-> built.tfidf_matrix]]
    IN  IF built.raised # "none" THEN cache
        ELSE IF fault = "save_npz" THEN made
        ELSE IF fault = "savez_compressed" THEN with_matrix
        ELSE [with_matrix EXCEPT
                 !.tfidf_metadata = [exists |-> TRUE, vocabulary |-> built.vocabulary_,
                                     idf_values |-> built.idf_]]

\* process_csv going on with an empty index when it cannot load the corpus.
process_csv_saving_unusable(csv, cache, fault) ==
    LET df == read_csv(csv)
    IN  IF df.raised = "none" /\ HasColumn(df, "content")
        THEN BuildAndSave(df, cache, fault)
        ELSE [exists |-> TRUE, tfidf_matrix |-> [exists |-> TRUE, rows |-> <<>>],
              tfidf_metadata |-> [exists |-> TRUE, vocabulary |-> <<>>,
                                  idf_values |-> <<>>]]

\* process_csv(csv_file_path, cache_dir)
process_csv(csv, cache, fault) ==
    IF ~csv.exists THEN cache
    ELSE LET df == read_csv(csv)
         IN  IF df.raised # "none" THEN cache
             ELSE IF ~HasColumn(df, "content") THEN cache
             ELSE BuildAndSave(df, cache, fault)

\* load_cached_data(cache_dir): the first exception of its three loads.
load_cached_data(cache, csv) ==
    LET df == read_csv(csv)
    IN  [raised |->
            IF ~cache.tfidf_matrix.exists \/ ~cache.tfidf_metadata.exists
            THEN "FileNotFoundError" ELSE df.raised,
         tfidf_matrix |-> cache.tfidf_matrix.rows,
         vocabulary |-> cache.tfidf_metadata.vocabulary,
         idf_values |-> cache.tfidf_metadata.idf_values,
         df |-> df]

\* TfidfVectorizer().fit_transform([query]): the vocabulary fitted on the
\* query instead of the persisted one.
QueryVec_own_vocabulary(q, vocabulary) ==
    LET docs == <<Analyze(q, {})>>
        own == Vocabulary({docs[1][n] : n \in DOMAIN docs[1]})
    IN  TfidfRow(docs[1], own, Idf(docs, own))

\* TfidfVectorizer(vocabulary=vocabulary).fit_transform([query])
QueryVec(q, vocabulary) ==
    LET docs == <<Analyze(q, {})>>
    IN  TfidfRow(docs[1], vocabulary, Idf(docs, vocabulary))

\* cosine_similarity(query_vec, tfidf_matrix).flatten()
cosine_similarity(x, Y) ==
    [k \in DOMAIN Y |-> Dot(Normalize(x), Normalize(Y[k])) \div ONE]

\* The orders of the row indices `rows` in which no score comes before a
\* lower one.
RECURSIVE Ascending(_, _)
Ascending(scores, rows) ==
    IF rows = {} THEN {<<>>}
    ELSE UNION {{<<m>> \o rest : rest \in Ascending(scores, rows \ {m})} :
                   m \in {r \in rows : \A o \in rows : scores[r + 1] <= scores[o + 1]}}

\* similarity_scores.argsort(): the row indices in an order of
\* non-decreasing score.  The default sort is not a stable one, so rows of
\* equal score come in any order.
argsort(scores) == Ascending(scores, 0..(Len(scores) - 1))

\* How many results search_query returns at most.
TOP_K == 5

\* top_indices taken from the order as argsort gives it: order[:5]
TopIndices_unreversed(order) ==
    [k \in 1..(IF Len(order) < TOP_K THEN Len(order) ELSE TOP_K) |-> order[k]]

\* order[::-1][:5]
TopIndices(order) ==
    [k \in 1..(IF Len(order) < TOP_K THEN Len(order) ELSE TOP_K) |->
        order[Len(order) + 1 - k]]

\* The list search_query builds from top_indices.
ResultList(top_indices, similarity_scores, df) ==
    IF \E k \in DOMAIN top_indices : top_indices[k] >= Len(df.rows)
    THEN [outcome |-> "IndexError", list |-> <<>>]
    ELSE IF ~HasColumn(df, "filename") \/ ~HasColumn(df, "content")
    THEN [outcome |-> "KeyError", list |-> <<>>]
    ELSE [outcome |-> "returned",
          list |-> [k \in DOMAIN top_indices |->
                      [filename |-> df.rows[top_indices[k] + 1].filename,
                       content |-> df.rows[top_indices[k] + 1].content,
                       similarity |-> similarity_scores[top_indices[k] + 1]]]]

\* search_query(query, tfidf_matrix, df, vocabulary): every list it may
\* return, one for each order argsort may give.
search_query(q, tfidf_matrix, df, vocabulary) ==
    LET vec == QueryVec(q, vocabulary)
    IN  IF \E k \in DOMAIN tfidf_matrix : Len(tfidf_matrix[k]) # Len(vec)
        THEN {[outcome |-> "ValueError", list |-> <<>>]}
        ELSE UNION {{ResultList(TopIndices(order), similarity_scores, df) :
                        order \in argsort(similarity_scores)} :
                    similarity_scores \in {cosine_similarity(vec, tfidf_matrix)}}

(***************************************************************************)
(* The corpora the indexer is run over                                     *)
(***************************************************************************)
Doc(name, content) == [filename |-> <<name, ".pdf">>, content |-> content]
D_CITY == Doc("city", <<"city", "report", "\n">>)
D_BCN ==
    Doc("bcn", <<"The", "voluntary", "local", "review", "of", "Barcelona", "\n",
                 "housing", "housing", "housing", "housing", "\n">>)
D_WATER == Doc("water", <<"water", "and", "energy", "\n">>)
D_REVIEW == Doc("review", <<"Review", "\n">>)
D_SCAN == Doc("scan", <<>>)
D_SCAN2 == Doc("scan2", <<>>)
D_STOP == Doc("stop", <<"of", "the", "\n">>)
D_S1 == Doc("s1", <<"city", "report", "water", "review", "climate", "\n">>)
D_S2 == Doc("s2", <<"city", "report", "water", "review", "climate", "\n">>)
D_S3 == Doc("s3", <<"water", "review", "climate", "\n">>)
D_S4 == Doc("s4", <<"city", "review", "climate", "\n", "report", "report", "\n">>)
D_S6 == Doc("s6", <<"The", "climate", "\n">>)

Corpus(rows) == [exists |-> TRUE, columns |-> CORPUS_COLUMNS, rows |-> rows]

\* Three documents, the second the only one with the words of the phrase
\* "voluntary local review of Barcelona".
BARCELONA_EXAMPLE == Corpus(<<D_CITY, D_BCN, D_WATER>>)
\* The same with a first document that has one of the words.
BARCELONA_SHARED == Corpus(<<D_REVIEW, D_BCN, D_WATER>>)
\* Six documents, one more than a search returns: the first two have the
\* same text and the fifth has none.
SIX_DOCUMENTS == Corpus(<<D_S1, D_S2, D_S3, D_S4, D_SCAN, D_S6>>)
\* Documents without a term to index.
NO_TERMS == Corpus(<<D_SCAN, D_STOP>>)
\* Two scans: every document has empty text.
ALL_SCANS == Corpus(<<D_SCAN, D_SCAN2>>)
\* A file of no bytes, and a CSV that has no 'content' column.
EMPTY_CSV == [exists |-> TRUE, columns |-> <<>>, rows |-> <<>>]
NO_CONTENT_COLUMN ==
    [exists |-> TRUE, columns |-> <<"filename", "text">>,
     rows |-> <<[filename |-> <<"city", ".pdf">>, text |-> <<"city", "report", "\n">>]>>]

CorpusFiles ==
    {NoCsv, EMPTY_CSV, NO_CONTENT_COLUMN, NO_TERMS, ALL_SCANS, BARCELONA_EXAMPLE,
     BARCELONA_SHARED, SIX_DOCUMENTS}

Queries ==
    {<<"Barcelona", "voluntary", "review">>, <<"city", "report">>, <<"water">>,
     <<"the", "climate">>}

\* The cache directories that earlier runs of process_csv, over the corpus
\* there was then, may have left.
EarlierCaches ==
    {process_csv(c2, process_csv(c1, NoCache, f1), f2) :
        c1 \in CorpusFiles, c2 \in CorpusFiles, f1 \in Faults, f2 \in Faults}

\* A run of process_csv.py
ProcessCsv ==
    /\ \E fault \in Faults : cache_dir' = process_csv(csv_output, cache_dir, fault)
    /\ job' = "process_csv"
    /\ UNCHANGED <<crawlVars, pdf_directory, csv_output, query, query_vec, results>>

\* A run of search_csv.py for the query q.
SearchCsv ==
    /\ \E q \in Queries :
          LET loaded == load_cached_data(cache_dir, csv_output) IN
          /\ query' = q
          /\ IF loaded.raised # "none"
             THEN /\ query_vec' = <<>>
                  /\ results' = [outcome |-> loaded.raised, list |-> <<>>]
             ELSE /\ query_vec' = QueryVec(q, loaded.vocabulary)
                  /\ results' \in search_query(q, loaded.tfidf_matrix, loaded.df,
                                               loaded.vocabulary)
    /\ UNCHANGED <<crawlVars, extractVars, cache_dir>>

\* The indexer and the search run over a corpus and a cache directory, the
\* crawler and the extractors at rest.
InitIndex ==
    /\ server = [u \in URLS |-> Timeout]
    /\ unreadable = {}
    /\ urls_to_scrape = <<>>
    /\ csvFiles = [n \in CsvNames |-> NoFile]
    /\ fs = EmptyDisk
    /\ visited_urls = {}
    /\ unique_hashes = {}
    /\ pc = "idle"
    /\ i = 1
    /\ pending = <<>>
    /\ gets = <<>>
    /\ run = 0
    /\ pdf_directory = [exists |-> FALSE, entries |-> {}]
    /\ job = "none"
    /\ csv_output \in CorpusFiles
    /\ cache_dir \in EarlierCaches
    /\ query = <<>>
    /\ query_vec = <<>>
    /\ results = NotRun

NextIndex == ProcessCsv \/ SearchCsv

SpecIndex == InitIndex /\ [][NextIndex]_vars

\* The corpus CSV is missing, cannot be parsed or has no 'content' column.
CorpusUnusable ==
    \/ ~csv_output.exists
    \/ csv_output.columns = <<>>
    \/ \A c \in DOMAIN csv_output.columns : csv_output.columns[c] # "content"

\* C11: when the corpus CSV does not exist, cannot be read or has no
\* 'content' column, a run of process_csv neither creates nor changes
\* tfidf_matrix.npz or tfidf_metadata.npz.
C11_UnusableCorpusKeepsIndex ==
    [][CorpusUnusable
       => /\ cache_dir'.tfidf_matrix = cache_dir.tfidf_matrix
          /\ cache_dir'.tfidf_metadata = cache_dir.tfidf_metadata]_vars

\* process_csv has run over a CSV without a 'content' column and the index
\* of an earlier build is still in the cache directory.
C11_Witness ==
    /\ job = "process_csv"
    /\ csv_output = NO_CONTENT_COLUMN
    /\ cache_dir.tfidf_matrix.exists /\ cache_dir.tfidf_matrix.rows # <<>>
    /\ cache_dir.tfidf_metadata.exists

\* The index in the cache directory is the one process_csv builds from the
\* corpus CSV as it is now.
Indexed ==
    /\ cache_dir.tfidf_matrix.exists /\ cache_dir.tfidf_metadata.exists
    /\ cache_dir = process_csv(csv_output, NoCache, "none")

\* A step is a search.
IsSearch == results' # results \/ query' # query

\* The similarity of every document of the index to the query vector of
\* the search a step makes.
ScoresOfSearch == cosine_similarity(query_vec', cache_dir.tfidf_matrix.rows)

\* The row of the corpus that the k-th result of that search names.
RowOfResult(k) ==
    CHOOSE r \in DOMAIN csv_output.rows :
        csv_output.rows[r].filename = results'.list[k].filename

Min(a, b) == IF a < b THEN a ELSE b

\* C12: a search over the index of the corpus returns min(5, number of
\* indexed documents) records {filename, content, similarity}, each a
\* document of the corpus with its cosine similarity to the query, no
\* document twice, in order of non-increasing similarity, and no document
\* left out is more similar than one returned.
C12_TopFiveBySimilarity ==
    [][(IsSearch /\ Indexed)
       => LET list == results'.list
              n == Len(cache_dir.tfidf_matrix.rows)
          IN  /\ results'.outcome = "returned"
              /\ Len(list) = Min(5, n)
              /\ \A k \in DOMAIN list :
                    /\ DOMAIN list[k] = {"filename", "content", "similarity"}
                    /\ \E r \in DOMAIN csv_output.rows :
                          csv_output.rows[r].filename = list[k].filename
                    /\ list[k].similarity = ScoresOfSearch[RowOfResult(k)]
              /\ \A j, k \in DOMAIN list : j # k => RowOfResult(j) # RowOfResult(k)
              /\ \A j, k \in DOMAIN list :
                    j < k => list[j].similarity >= list[k].similarity
              /\ \A r \in DOMAIN csv_output.rows :
                    (\A k \in DOMAIN list : RowOfResult(k) # r)
                    => \A k \in DOMAIN list : ScoresOfSearch[r] <= list[k].similarity]_vars

\* A search over the index of the six documents returned five of them, the
\* first more similar to the query than the last.
C12_Witness ==
    /\ csv_output = SIX_DOCUMENTS /\ Indexed
    /\ results.outcome = "returned"
    /\ Len(results.list) = 5
    /\ results.list[1].similarity > results.list[5].similarity
    /\ results.list[5].similarity > 0

\* The query of a search weighted with the vocabulary and the IDF values of
\* tfidf_metadata.npz: term counts times idf_values, l2-normalised.
PersistedWeighting ==
    LET vocabulary == cache_dir.tfidf_metadata.vocabulary
        idf_values == cache_dir.tfidf_metadata.idf_values
        terms == SelectSeq(LowerSeq(query'), LAMBDA w : w \in DOMAIN vocabulary)
    IN  Normalize([j \in DOMAIN idf_values |->
                      Count(terms, TermAt(vocabulary, j - 1)) * idf_values[j]])

\* C13 (as claimed): the query vector a search compares with the matrix is
\* the query weighted with the persisted vocabulary and the persisted IDF
\* values, so that a term weighs in the query as it does in the index.
C13_QueryUsesPersistedIdf ==
    [][(IsSearch /\ results'.outcome = "returned") => query_vec' = PersistedWeighting]_vars

\* C14 (as claimed): documents of equal similarity come in matrix row order,
\* the lower row first, and of a group of equally similar documents that
\* the cut-off at five divides, the lower rows are the ones returned.
C14_TiesInRowOrder ==
    [][(IsSearch /\ Indexed /\ results'.outcome = "returned")
       => LET list == results'.list
          IN  /\ \A j, k \in DOMAIN list :
                    (j < k /\ list[j].similarity = list[k].similarity)
                    => RowOfResult(j) < RowOfResult(k)
              /\ \A r \in DOMAIN csv_output.rows :
                    (\A k \in DOMAIN list : RowOfResult(k) # r)
                    => \A k \in DOMAIN list :
                          list[k].similarity = ScoresOfSearch[r] => RowOfResult(k) < r]_vars

\* The words of a text or a query, in lower case.
WordsOf(text) == {Lower(text[k]) : k \in DOMAIN text} \ {"\n"}

\* Document r of the corpus has every word of the query q.
ContainsTerms(r, q) == WordsOf(q) \subseteq WordsOf(csv_output.rows[r].content)

\* The text has the phrase, word for word.
ContainsPhrase(text, phrase) ==
    \E n \in 0..(Len(text) - Len(phrase)) : SubSeq(text, n + 1, n + Len(phrase)) = phrase

BARCELONA_PHRASE == <<"voluntary", "local", "review", "of", "Barcelona">>
BARCELONA_QUERY == <<"Barcelona", "voluntary", "review">>

\* A corpus of three documents of which the second, and only the second,
\* has the phrase "voluntary local review of Barcelona".
IsBarcelonaExample ==
    /\ Len(csv_output.rows) = 3
    /\ \A r \in 1..3 : ContainsPhrase(csv_output.rows[r].content, BARCELONA_PHRASE) <=> r = 2

IndexTermsOf(q) == {w \in WordsOf(q) : TokenPattern(w)} \ ENGLISH_STOP_WORDS

\* Document r of the corpus has a term of the query q.
SharesTerm(r, q) == IndexTermsOf(q) \cap WordsOf(csv_output.rows[r].content) # {}

IsBuild ==
    /\ job' = "process_csv" /\ ~IsSearch
    /\ cache_dir' = process_csv(csv_output, cache_dir, "none")

\* The columns of a matrix row that are not zero, as terms of the vocabulary.
TermsOfRow(row, vocabulary) ==
    {TermAt(vocabulary, j - 1) : j \in {n \in DOMAIN row : row[n] # 0}}

\* C27 (as claimed): a run of process_csv over a corpus it can read, no save
\* failing, leaves a matrix with one row per row of the corpus, row k having
\* weights for the terms of document k and no others (none for a document
\* whose content is missing), whether some or all documents have empty text;
\* and a second run over the same corpus leaves the same index.
C27_OneMatrixRowPerDocument ==
    [][(IsBuild /\ ~CorpusUnusable)
       => LET matrix == cache_dir'.tfidf_matrix
              metadata == cache_dir'.tfidf_metadata
          IN  /\ matrix.exists /\ metadata.exists
              /\ Len(matrix.rows) = Len(csv_output.rows)
              /\ \A k \in DOMAIN matrix.rows :
                    /\ Len(matrix.rows[k]) = Cardinality(DOMAIN metadata.vocabulary)
                    /\ TermsOfRow(matrix.rows[k], metadata.vocabulary)
                         = IndexTermsOf(csv_output.rows[k].content)
              /\ process_csv(csv_output, cache_dir', "none") = cache_dir']_vars

\* The two artifacts of a cache directory, when both are there, are those of
\* one build: the vocabulary has as many terms as every matrix row has
\* columns, and some corpus gives that matrix and that metadata together.
SameBuild(cache) ==
    (cache.tfidf_matrix.exists /\ cache.tfidf_metadata.exists)
    => /\ \A k \in DOMAIN cache.tfidf_matrix.rows :
             Len(cache.tfidf_matrix.rows[k])
               = Cardinality(DOMAIN cache.tfidf_metadata.vocabulary)
       /\ \E c \in CorpusFiles :
             LET clean == process_csv(c, NoCache, "none")
             IN  /\ clean.tfidf_matrix = cache.tfidf_matrix
                 /\ clean.tfidf_metadata = cache.tfidf_metadata

\* C28 (as claimed): a run of process_csv that finds the two artifacts of
\* one build, or none, leaves the two artifacts of one build, however it
\* returns: a failing save never leaves a new matrix next to the metadata of
\* an earlier build.
C28_ArtifactsOfOneBuild ==
    [][(job' = "process_csv" /\ ~IsSearch /\ SameBuild(cache_dir))
       => SameBuild(cache_dir')]_vars

\* A value of the data frame as text: a missing value has no words.
TextOf(value) == IF value = NaN THEN <<>> ELSE value

\* C29 (as claimed): every record a search returns names a document of the
\* corpus, with its content, whose row of the matrix gave the record's
\* similarity: that row has weights for the terms of that content and no
\* others; whatever was run before the search, a regeneration of the corpus
\* CSV after the last build included.
C29_ResultIsTheScoredDocument ==
    [][(IsSearch /\ results'.outcome = "returned")
       => \A k \in DOMAIN results'.list :
            \E r \in DOMAIN cache_dir.tfidf_matrix.rows :
               /\ r \in DOMAIN csv_output.rows
               /\ results'.list[k].filename = csv_output.rows[r].filename
               /\ TextOf(results'.list[k].content) = csv_output.rows[r].content
               /\ results'.list[k].similarity = ScoresOfSearch[r]
               /\ TermsOfRow(cache_dir.tfidf_matrix.rows[r],
                             cache_dir.tfidf_metadata.vocabulary)
                    = IndexTermsOf(csv_output.rows[r].content)]_vars

====
